---- MODULE Spec2Model ----
(***************************************************************************)
(* preziscrtaker.js: the navigation/capture state machine of one run of    *)
(* the script (argument check, browser launch, navigation, the optional    *)
(* consent and present controls, the required fullscreen control, the      *)
(* first capture and the advance loop, shutdown), against a remote         *)
(* document whose answers (is a control present, does an operation         *)
(* succeed) are fixed per document but unknown to the script until it      *)
(* asks.  An answer is drawn when the script first asks for it and kept,   *)
(* so that a second run against the same document sees the same answers.   *)
(***************************************************************************)
EXTENDS Integers, Sequences, FiniteSets, TLC

\* Bound on the slide index n: the while (true) loop is cut off at n = MaxN.
MaxN == 3
\* Bound on the number of runs of the script against the same document.
MaxRuns == 2

\* Bound on the viewport sizes tried: widths 640k and heights 360k, k up to
\* MaxScale, besides the default and the smallest.
MaxScale == 2

\* const height = argv.height || 842; const width = argv.width || 595;
DefaultHeight == 842
DefaultWidth == 595

\* .resize(1280, 720, {fit: 'cover'})
TargetWidth == 1280
TargetHeight == 720

\* Process exit statuses: a normal end of the script, and process.exit(1) /
\* an uncaught exception or rejection.
ExitSuccess == 0
ExitFailure == 1

VARIABLES
    pc,          \* the script's position
    n,           \* let n: the slide index
    written,     \* the indices whose prezi-{n}.png this run has written, in order
    disk,        \* the files present in the output directory
    dirExists,   \* fs.existsSync(out)
    ops,         \* the browser/page operations this run has issued, in order
    browser,     \* "none" (not launched), "open", "closed"
    closes,      \* number of browser.close() calls of this run
    exitCode,    \* the process exit status (read when pc = "exited")
    exitReason,  \* why the run ended
    pos,         \* the document: number of next activations it has received
    env,         \* the answers learnt so far: argv.url and the page's controls
    nextAt,      \* position -> is the next control present (learnt so far)
    breakerAt,   \* position -> is the end-marker overlay present (learnt so far)
    shotOk,      \* index -> does capture/postprocess/write succeed (learnt so far)
    run,         \* which run of the script this is
    prev,        \* the outcome of the previous run, <<>> for the first
    viewport,    \* <<width, height>>
    sizes        \* path -> <<width, height>> of the image in the file

vars == <<pc, n, written, disk, dirExists, ops, browser, closes, exitCode,
          exitReason, pos, env, nextAt, breakerAt, shotOk, run, prev,
          viewport, sizes>>

docVars == <<env, nextAt, breakerAt, shotOk>>

----------------------------------------------------------------------------
\* Helpers

Range(s) == {s[i] : i \in DOMAIN s}

\* <<0, 1, ..., k-1>>
Upto(k) == [i \in 1..k |-> i - 1]

NoAnswers == [k \in {} |-> TRUE]

\* The answers the document can give to question k: the one it gave before,
\* or either one when it is asked for the first time.
Answers(f, k) == IF k \in DOMAIN f THEN {f[k]} ELSE BOOLEAN

Learn(f, k, v) == IF k \in DOMAIN f THEN f ELSE (k :> v) @@ f

Forget(f, ks) == [k \in (DOMAIN f) \ ks |-> f[k]]

\* `${out}/prezi-${n}.png`
OutputPath(i) == <<"out", "/prezi-", i, ".png">>

\* The --width and --height arguments tried; 0 stands for an argument that
\* is not given (or given as 0).
ArgWidths == {0, 1} \cup {640 * k : k \in 1..MaxScale}
ArgHeights == {0, 1} \cup {360 * k : k \in 1..MaxScale}

\* argv.x || dflt
OrDefault(x, dflt) == IF x = 0 THEN dflt ELSE x

\* Nearest integer to a / b, for a >= 0 and b > 0.
Round(a, b) == (2 * a + b) \div (2 * b)

Min(a, b) == IF a <= b THEN a ELSE b

\* The size the image is scaled to under fit 'cover': one factor for both
\* axes, the smaller of the two shrink factors w/TargetWidth and
\* h/TargetHeight, so that the scaled image covers the target box.
CoverScaled(w, h) ==
    IF w * TargetHeight < h * TargetWidth
      THEN <<TargetWidth, Round(h * TargetWidth, w)>>
      ELSE <<Round(w * TargetHeight, h), TargetHeight>>

\* The same under fit 'inside': the larger shrink factor, so that the scaled
\* image fits into the target box; nothing is cropped.
sharpResize_Inside(w, h) ==
    IF w * TargetHeight > h * TargetWidth
      THEN <<TargetWidth, Round(h * TargetWidth, w)>>
      ELSE <<Round(w * TargetHeight, h), TargetHeight>>

\* sharp(buffer).resize(1280, 720, {fit: 'cover'}): scale to cover, then crop
\* what overflows the target box.
sharpResize(w, h) ==
    LET s == CoverScaled(w, h)
    IN <<Min(s[1], TargetWidth), Min(s[2], TargetHeight)>>

\* page.screenshot(): the viewport at deviceScaleFactor 1
Screenshot == viewport

----------------------------------------------------------------------------
Init ==
    /\ pc = "args"
    /\ n = 0
    /\ written = <<>>
    /\ disk = {}
    /\ dirExists \in BOOLEAN
    /\ ops = <<>>
    /\ browser = "none"
    /\ closes = 0
    /\ exitCode = ExitSuccess
    /\ exitReason = ""
    /\ pos = 0
    /\ env \in {("url" :> b) : b \in BOOLEAN}
    /\ nextAt = NoAnswers
    /\ breakerAt = NoAnswers
    /\ shotOk = NoAnswers
    /\ run = 1
    /\ prev = <<>>
    /\ \E w \in ArgWidths, h \in ArgHeights :
         viewport = <<OrDefault(w, DefaultWidth), OrDefault(h, DefaultHeight)>>
    /\ sizes = NoAnswers

\* An exception thrown at top level, or a rejection leaving the async
\* function: the process ends with a failure status; nothing is cleaned up.
Uncaught(reason) ==
    /\ pc' = "exited"
    /\ exitCode' = ExitFailure
    /\ exitReason' = reason

\* CheckArgs with the URL check left out.
CheckArgs_NoThrow ==
    /\ pc = "args"
    /\ pc' = "launch"
    /\ dirExists' = TRUE
    /\ UNCHANGED <<n, written, disk, ops, browser, closes, exitCode,
                   exitReason, pos, docVars, run, prev, viewport, sizes>>

\* const prezi = argv.url || null; if (!prezi) throw ...; mkdirSync(out)
CheckArgs ==
    /\ pc = "args"
    /\ IF ~env["url"]
         THEN Uncaught("no_url") /\ UNCHANGED dirExists
         ELSE /\ pc' = "launch"
              /\ dirExists' = TRUE
              /\ UNCHANGED <<exitCode, exitReason>>
    /\ UNCHANGED <<n, written, disk, ops, browser, closes, pos, docVars, run, prev, viewport, sizes>>

\* puppeteer.launch, newPage, setViewport, setUserAgent
Launch ==
    /\ pc = "launch"
    /\ browser' = "open"
    /\ ops' = ops \o <<"launch", "newPage", "setViewport", "setUserAgent">>
    /\ pc' = "goto"
    /\ UNCHANGED <<n, written, disk, dirExists, closes, exitCode, exitReason,
                   pos, docVars, run, prev, viewport, sizes>>

\* await page.goto(prezi, ...)
Navigate ==
    /\ pc = "goto"
    /\ ops' = Append(ops, "goto")
    /\ \E ok \in Answers(env, "goto") :
         /\ env' = Learn(env, "goto", ok)
         /\ IF ok
              THEN pc' = "cookie" /\ UNCHANGED <<exitCode, exitReason>>
              ELSE Uncaught("goto_failed")
    /\ UNCHANGED <<n, written, disk, dirExists, browser, closes, pos,
                   nextAt, breakerAt, shotOk, run, prev, viewport, sizes>>

\* try { await page.waitForSelector(sel, {timeout}); await page.click(sel) }
\* catch (e) { console.log(...) }
\* The control is found within the bound or not, and when found its click
\* succeeds or throws; the catch swallows both failures and the flow goes on.
BestEffort(waitOp, clickOp, kFound, kClick, cont) ==
    \E found \in Answers(env, kFound) :
      \E ok \in (IF found THEN Answers(env, kClick) ELSE {TRUE}) :
        /\ env' = (IF found THEN Learn(Learn(env, kFound, found), kClick, ok)
                            ELSE Learn(env, kFound, found))
        /\ ops' = ops \o <<waitOp>> \o (IF found THEN <<clickOp>> ELSE <<>>)
        /\ pc' = cont
        /\ UNCHANGED <<exitCode, exitReason>>

\* The same wait and click without the try/catch: a control that is not
\* found, or a click that throws, rejects out of the async function.
NoCatch(waitOp, clickOp, kFound, kClick, cont, reason) ==
    \E found \in Answers(env, kFound) :
      \E ok \in (IF found THEN Answers(env, kClick) ELSE {TRUE}) :
        /\ env' = (IF found THEN Learn(Learn(env, kFound, found), kClick, ok)
                            ELSE Learn(env, kFound, found))
        /\ ops' = ops \o <<waitOp>> \o (IF found THEN <<clickOp>> ELSE <<>>)
        /\ IF found /\ ok
             THEN pc' = cont /\ UNCHANGED <<exitCode, exitReason>>
             ELSE Uncaught(reason)

\* ConsentDismissal with a missing consent control fatal.
ConsentDismissal_Fatal ==
    /\ pc = "cookie"
    /\ NoCatch("wait(cookieAcceptBtn)", "click(cookieAcceptBtn)",
               "cookie", "cookieClick", "present", "cookie_failed")
    /\ UNCHANGED <<n, written, disk, dirExists, browser, closes, pos,
                   nextAt, breakerAt, shotOk, run, prev, viewport, sizes>>

\* 1. Accept cookies if prompted
ConsentDismissal ==
    /\ pc = "cookie"
    /\ BestEffort("wait(cookieAcceptBtn)", "click(cookieAcceptBtn)",
                  "cookie", "cookieClick", "present")
    /\ UNCHANGED <<n, written, disk, dirExists, browser, closes, pos,
                   nextAt, breakerAt, shotOk, run, prev, viewport, sizes>>

\* PresentEntry with a missing present control fatal.
PresentEntry_Fatal ==
    /\ pc = "present"
    /\ NoCatch("wait(presentDiv)", "click(presentDiv)",
               "present", "presentClick", "viewer", "present_failed")
    /\ UNCHANGED <<n, written, disk, dirExists, browser, closes, pos,
                   nextAt, breakerAt, shotOk, run, prev, viewport, sizes>>

\* PresentEntry followed at once by the fullscreen click: the ViewerReady
\* wait is left out.
PresentEntry_SkipViewer ==
    /\ pc = "present"
    /\ BestEffort("wait(presentDiv)", "click(presentDiv)",
                  "present", "presentClick", "fullscreen")
    /\ UNCHANGED <<n, written, disk, dirExists, browser, closes, pos,
                   nextAt, breakerAt, shotOk, run, prev, viewport, sizes>>

\* 2. Click the "Present" div if present
PresentEntry ==
    /\ pc = "present"
    /\ BestEffort("wait(presentDiv)", "click(presentDiv)",
                  "present", "presentClick", "viewer")
    /\ UNCHANGED <<n, written, disk, dirExists, browser, closes, pos,
                   nextAt, breakerAt, shotOk, run, prev, viewport, sizes>>

\* ViewerReady whose catch closes the browser but does not exit: the flow
\* falls through to FullscreenEnter.
ViewerReady_NoExit ==
    /\ pc = "viewer"
    /\ \E found \in Answers(env, "fullscr") :
         /\ env' = Learn(env, "fullscr", found)
         /\ pc' = "fullscreen"
         /\ IF found
              THEN /\ ops' = Append(ops, "wait(fullscr)")
                   /\ UNCHANGED <<browser, closes>>
              ELSE /\ ops' = ops \o <<"wait(fullscr)", "close">>
                   /\ browser' = "closed"
                   /\ closes' = closes + 1
    /\ UNCHANGED <<n, written, disk, dirExists, exitCode, exitReason, pos,
                   nextAt, breakerAt, shotOk, run, prev, viewport, sizes>>

\* ViewerReady whose catch exits with status 0.
ViewerReady_ExitZero ==
    /\ pc = "viewer"
    /\ \E found \in Answers(env, "fullscr") :
         /\ env' = Learn(env, "fullscr", found)
         /\ IF found
              THEN /\ ops' = Append(ops, "wait(fullscr)")
                   /\ pc' = "fullscreen"
                   /\ UNCHANGED <<browser, closes, exitCode, exitReason>>
              ELSE /\ ops' = ops \o <<"wait(fullscr)", "close">>
                   /\ browser' = "closed"
                   /\ closes' = closes + 1
                   /\ pc' = "exited"
                   /\ exitCode' = ExitSuccess
                   /\ exitReason' = "viewer_timeout"
    /\ UNCHANGED <<n, written, disk, dirExists, pos, nextAt, breakerAt, shotOk,
                   run, prev, viewport, sizes>>

\* 3. Wait for the Prezi viewer to load (fullscreen icon); on timeout
\* browser.close() and process.exit(1)
ViewerReady ==
    /\ pc = "viewer"
    /\ \E found \in Answers(env, "fullscr") :
         /\ env' = Learn(env, "fullscr", found)
         /\ IF found
              THEN /\ ops' = Append(ops, "wait(fullscr)")
                   /\ pc' = "fullscreen"
                   /\ UNCHANGED <<browser, closes, exitCode, exitReason>>
              ELSE /\ ops' = ops \o <<"wait(fullscr)", "close">>
                   /\ browser' = "closed"
                   /\ closes' = closes + 1
                   /\ pc' = "exited"
                   /\ exitCode' = ExitFailure
                   /\ exitReason' = "viewer_timeout"
    /\ UNCHANGED <<n, written, disk, dirExists, pos, nextAt, breakerAt, shotOk,
                   run, prev, viewport, sizes>>

\* await page.click(fullscr)
FullscreenEnter ==
    /\ pc = "fullscreen"
    /\ ops' = Append(ops, "click(fullscr)")
    /\ pc' = "first_capture"
    /\ UNCHANGED <<n, written, disk, dirExists, browser, closes, exitCode,
                   exitReason, pos, docVars, run, prev, viewport, sizes>>

\* captureCroppedScreenshot that does not overwrite: when the path exists
\* the file goes to the first free index after the existing files.
captureCroppedScreenshot_Append(idx, ok, before, cont) ==
    IF ok
      THEN /\ ops' = ops \o before \o <<"screenshot", "toFile">>
           /\ written' = Append(written, idx)
           /\ LET path == IF OutputPath(idx) \in disk
                             THEN OutputPath(idx + Cardinality(disk))
                             ELSE OutputPath(idx)
              IN /\ disk' = disk \cup {path}
                 /\ sizes' = (path :> sharpResize(Screenshot[1], Screenshot[2]))
                                @@ sizes
           /\ pc' = cont
           /\ UNCHANGED <<exitCode, exitReason>>
      ELSE /\ ops' = ops \o before \o <<"screenshot">>
           /\ UNCHANGED <<written, disk, sizes>>
           /\ Uncaught("capture_failed")

\* captureCroppedScreenshot(page, `${out}/prezi-${idx}.png`): page.screenshot,
\* sharp(...).resize(1280, 720, {fit: 'cover'}).toFile(outputPath).  A failure
\* of any of the three rejects, and none of the call sites catches it.
captureCroppedScreenshot(idx, ok, before, cont) ==
    IF ok
      THEN /\ ops' = ops \o before \o <<"screenshot", "toFile">>
           /\ written' = Append(written, idx)
           /\ disk' = disk \cup {OutputPath(idx)}
           /\ sizes' = (OutputPath(idx) :> sharpResize(Screenshot[1], Screenshot[2]))
                          @@ sizes
           /\ pc' = cont
           /\ UNCHANGED <<exitCode, exitReason>>
      ELSE /\ ops' = ops \o before \o <<"screenshot">>
           /\ UNCHANGED <<written, disk, sizes>>
           /\ Uncaught("capture_failed")

\* let n = 0; 0.5s delay; captureCroppedScreenshot(page, prezi-0)
FirstCapture ==
    /\ pc = "first_capture"
    /\ n' = 0
    /\ \E ok \in Answers(shotOk, n') :
         /\ shotOk' = Learn(shotOk, n', ok)
         /\ captureCroppedScreenshot(n', ok, <<"delay">>, "first_move")
    /\ UNCHANGED <<dirExists, browser, closes, pos, env, nextAt, breakerAt,
                   run, prev, viewport>>

\* await page.mouse.move(100, 100)
FirstMove ==
    /\ pc = "first_move"
    /\ ops' = Append(ops, "mouse.move")
    /\ pc' = "first_next"
    /\ UNCHANGED <<n, written, disk, dirExists, browser, closes, exitCode,
                   exitReason, pos, docVars, run, prev, viewport, sizes>>

\* FirstNext that waits for the next control and does not click it.
FirstNext_NoClick ==
    /\ pc = "first_next"
    /\ \E found \in Answers(nextAt, pos) :
         /\ nextAt' = Learn(nextAt, pos, found)
         /\ ops' = Append(ops, "wait(nxt)")
         /\ pos' = pos
         /\ IF found
              THEN pc' = "loop_top" /\ UNCHANGED <<exitCode, exitReason>>
              ELSE Uncaught("next_timeout")
    /\ UNCHANGED <<n, written, disk, dirExists, browser, closes, env,
                   breakerAt, shotOk, run, prev, viewport, sizes>>

\* await page.waitForSelector(nxt); await page.click(nxt)
\* No try/catch: the wait's timeout rejects out of the async function.
FirstNext ==
    /\ pc = "first_next"
    /\ \E found \in Answers(nextAt, pos) :
         /\ nextAt' = Learn(nextAt, pos, found)
         /\ IF found
              THEN /\ ops' = ops \o <<"wait(nxt)", "click(nxt)">>
                   /\ pos' = pos + 1
                   /\ pc' = "loop_top"
                   /\ UNCHANGED <<exitCode, exitReason>>
              ELSE /\ ops' = Append(ops, "wait(nxt)")
                   /\ pos' = pos
                   /\ Uncaught("next_timeout")
    /\ UNCHANGED <<n, written, disk, dirExists, browser, closes, env,
                   breakerAt, shotOk, run, prev, viewport, sizes>>

\* while (true) { n++; 1.8s delay
LoopTop ==
    /\ pc = "loop_top"
    /\ n < MaxN
    /\ n' = n + 1
    /\ ops' = Append(ops, "delay")
    /\ pc' = "check_marker"
    /\ UNCHANGED <<written, disk, dirExists, browser, closes, exitCode,
                   exitReason, pos, docVars, run, prev, viewport, sizes>>

\* CheckMarker without the break: the marker is queried and ignored.
CheckMarker_NoBreak ==
    /\ pc = "check_marker"
    /\ ops' = Append(ops, "$(breaker)")
    /\ \E shown \in Answers(breakerAt, pos) :
         breakerAt' = Learn(breakerAt, pos, shown)
    /\ pc' = "capture"
    /\ UNCHANGED <<n, written, disk, dirExists, browser, closes, exitCode,
                   exitReason, pos, env, nextAt, shotOk, run, prev, viewport, sizes>>

\* CheckMarker placed after the capture: index n is written before the
\* marker ends the loop.
CheckMarker_AfterCapture ==
    /\ pc = "check_marker"
    /\ \E shown \in Answers(breakerAt, pos) :
         /\ breakerAt' = Learn(breakerAt, pos, shown)
         /\ IF shown
              THEN /\ ops' = ops \o <<"screenshot", "toFile", "$(breaker)">>
                   /\ written' = Append(written, n)
                   /\ disk' = disk \cup {OutputPath(n)}
                   /\ sizes' = (OutputPath(n) :>
                                   sharpResize(Screenshot[1], Screenshot[2])) @@ sizes
                   /\ pc' = "shutdown"
                   /\ exitReason' = "marker"
              ELSE /\ ops' = Append(ops, "$(breaker)")
                   /\ pc' = "capture"
                   /\ UNCHANGED <<written, disk, sizes, exitReason>>
    /\ UNCHANGED <<n, dirExists, browser, closes, exitCode, pos, env, nextAt,
                   shotOk, run, prev, viewport>>

\* if (await page.$(breaker) !== null) break;
CheckMarker ==
    /\ pc = "check_marker"
    /\ ops' = Append(ops, "$(breaker)")
    /\ \E shown \in Answers(breakerAt, pos) :
         /\ breakerAt' = Learn(breakerAt, pos, shown)
         /\ IF shown
              THEN pc' = "shutdown" /\ exitReason' = "marker"
              ELSE pc' = "capture" /\ exitReason' = exitReason
    /\ UNCHANGED <<n, written, disk, dirExists, browser, closes, exitCode,
                   pos, env, nextAt, shotOk, run, prev, viewport, sizes>>

\* LoopCapture naming the file by the previous index (n++ taken too late).
LoopCapture_StaleIndex ==
    /\ pc = "capture"
    /\ \E ok \in Answers(shotOk, n) :
         /\ shotOk' = Learn(shotOk, n, ok)
         /\ captureCroppedScreenshot(n - 1, ok, <<>>, "move")
    /\ UNCHANGED <<n, dirExists, browser, closes, pos, env, nextAt, breakerAt,
                   run, prev, viewport>>

\* LoopCapture inside a try/catch: a failed capture is skipped and the loop
\* goes on.
LoopCapture_Swallow ==
    /\ pc = "capture"
    /\ \E ok \in Answers(shotOk, n) :
         /\ shotOk' = Learn(shotOk, n, ok)
         /\ IF ok
              THEN captureCroppedScreenshot(n, ok, <<>>, "move")
              ELSE /\ ops' = Append(ops, "screenshot")
                   /\ pc' = "move"
                   /\ UNCHANGED <<written, disk, sizes, exitCode, exitReason>>
    /\ UNCHANGED <<n, dirExists, browser, closes, pos, env, nextAt, breakerAt,
                   run, prev, viewport>>

\* await captureCroppedScreenshot(page, `${out}/prezi-${n}.png`)
LoopCapture ==
    /\ pc = "capture"
    /\ \E ok \in Answers(shotOk, n) :
         /\ shotOk' = Learn(shotOk, n, ok)
         /\ captureCroppedScreenshot(n, ok, <<>>, "move")
    /\ UNCHANGED <<n, dirExists, browser, closes, pos, env, nextAt, breakerAt,
                   run, prev, viewport>>

\* LoopMove left out: the next control is queried right after the capture.
LoopMove_Skip ==
    /\ pc = "move"
    /\ pc' = "next"
    /\ UNCHANGED <<n, written, disk, dirExists, ops, browser, closes, exitCode,
                   exitReason, pos, docVars, run, prev, viewport, sizes>>

\* await page.mouse.move(100, 100)
LoopMove ==
    /\ pc = "move"
    /\ ops' = Append(ops, "mouse.move")
    /\ pc' = "next"
    /\ UNCHANGED <<n, written, disk, dirExists, browser, closes, exitCode,
                   exitReason, pos, docVars, run, prev, viewport, sizes>>

\* LoopNext without the break: a missing next control is ignored and the
\* loop goes round again.
LoopNext_NoBreak ==
    /\ pc = "next"
    /\ \E found \in Answers(nextAt, pos) :
         /\ nextAt' = Learn(nextAt, pos, found)
         /\ IF found
              THEN /\ ops' = ops \o <<"$(nxt)", "click(nxt)">>
                   /\ pos' = pos + 1
              ELSE /\ ops' = Append(ops, "$(nxt)")
                   /\ pos' = pos
    /\ pc' = "loop_top"
    /\ UNCHANGED <<n, written, disk, dirExists, browser, closes, exitCode,
                   exitReason, env, breakerAt, shotOk, run, prev, viewport, sizes>>

\* const nextEl = await page.$(nxt); if (!nextEl) break; await page.click(nxt)
LoopNext ==
    /\ pc = "next"
    /\ \E found \in Answers(nextAt, pos) :
         /\ nextAt' = Learn(nextAt, pos, found)
         /\ IF found
              THEN /\ ops' = ops \o <<"$(nxt)", "click(nxt)">>
                   /\ pos' = pos + 1
                   /\ pc' = "loop_top"
                   /\ exitReason' = exitReason
              ELSE /\ ops' = Append(ops, "$(nxt)")
                   /\ pos' = pos
                   /\ pc' = "shutdown"
                   /\ exitReason' = "no_next"
    /\ UNCHANGED <<n, written, disk, dirExists, browser, closes, exitCode,
                   env, breakerAt, shotOk, run, prev, viewport, sizes>>

\* await browser.close(); the script ends
Shutdown ==
    /\ pc = "shutdown"
    /\ ops' = Append(ops, "close")
    /\ browser' = "closed"
    /\ closes' = closes + 1
    /\ pc' = "exited"
    /\ UNCHANGED <<n, written, disk, dirExists, exitCode, exitReason, pos,
                   docVars, run, prev, viewport, sizes>>

\* What the consent control did in this run.
Consent ==
    IF "cookie" \notin DOMAIN env THEN "not_reached"
    ELSE IF ~env["cookie"] THEN "absent"
    ELSE IF env["cookieClick"] THEN "dismissed" ELSE "click_failed"

\* What a run leaves to be observed.
Outcome ==
    [written |-> written, exitReason |-> exitReason, exitCode |-> exitCode,
     browser |-> browser, disk |-> disk, consent |-> Consent]

\* The script is started again with the same arguments against the same
\* document; only the consent prompt may show or not show this time.
Restart ==
    /\ pc = "exited"
    /\ run < MaxRuns
    /\ run' = run + 1
    /\ prev' = <<Outcome>>
    /\ pc' = "args"
    /\ n' = 0
    /\ written' = <<>>
    /\ ops' = <<>>
    /\ browser' = "none"
    /\ closes' = 0
    /\ exitCode' = ExitSuccess
    /\ exitReason' = ""
    /\ pos' = 0
    /\ env' = Forget(env, {"cookie", "cookieClick"})
    /\ UNCHANGED <<disk, dirExists, nextAt, breakerAt, shotOk, viewport, sizes>>

Next ==
    \/ CheckArgs
    \/ Launch
    \/ Navigate
    \/ ConsentDismissal
    \/ PresentEntry
    \/ ViewerReady
    \/ FullscreenEnter
    \/ FirstCapture
    \/ FirstMove
    \/ FirstNext
    \/ LoopTop
    \/ CheckMarker
    \/ LoopCapture
    \/ LoopMove
    \/ LoopNext
    \/ Shutdown

\* One run of the script.
Spec == Init /\ [][Next]_vars

\* Runs of the script, one after the other, against the same document.
NextRerun == Next \/ Restart

SpecRerun == Init /\ [][NextRerun]_vars

\* The event loop resumes the async function whenever the awaited promise
\* settles, and every wait of the script is bounded by a timeout or settles
\* with the page's answer: an enabled step is eventually taken.
FairSpec == Spec /\ WF_vars(Next)

----------------------------------------------------------------------------
\* Properties

LastOp == IF ops = <<>> THEN "" ELSE ops[Len(ops)]

\* The operations issued after the last occurrence of op (all of them when
\* op was never issued).
OpsAfter(op) ==
    LET at == {i \in DOMAIN ops : ops[i] = op}
        last == IF at = {} THEN 0 ELSE CHOOSE i \in at : \A j \in at : j <= i
    IN {ops[i] : i \in (last + 1)..Len(ops)}

Ended == pc = "exited"

\* C1: the indices written by a run are always exactly 0..m-1, in increasing
\* order: a step either writes nothing or writes the one index m; and when the
\* loop has ended on one of its two termination conditions, m is the number
\* of slides the document showed before it (pos at the end marker, pos + 1
\* when the next control is absent on the slide at pos).
C1_ContiguousFiles ==
    /\ [](/\ written = Upto(Len(written))
          /\ exitReason = "marker" => Len(written) = pos
          /\ exitReason = "no_next" => Len(written) = pos + 1)
    /\ [][\/ written' = written
          \/ written' = Append(written, Len(written))]_vars

C1_Witness == Ended /\ exitReason = "no_next" /\ written = <<0, 1, 2>>

\* C2: every run that launched the browser has closed it when it ends.
C2_ClosedOnEveryExit == (Ended /\ browser # "none") => browser = "closed"

\* The fullscreen control did not appear within the ViewerReady bound.
ViewerTimedOut ==
    /\ "wait(fullscr)" \in Range(ops)
    /\ ~env["fullscr"]

\* C3: when the fullscreen control is not found, the run has ended with no
\* file written, a non-zero exit status and the browser closed exactly once,
\* and has issued no fullscreen click, capture, pointer move or next click.
C3_ViewerTimeoutAborts ==
    ViewerTimedOut =>
        /\ Ended
        /\ written = <<>>
        /\ disk = {}
        /\ exitCode # ExitSuccess
        /\ browser = "closed"
        /\ closes = 1
        /\ Range(ops) \cap {"click(fullscr)", "screenshot", "toFile",
                            "mouse.move", "click(nxt)"} = {}

C3_Witness == ViewerTimedOut /\ Ended

\* C4: the marker check of an iteration directly follows the settle delay;
\* when the check for index n finds the end marker, the loop is left at once
\* with nothing written for n, the files are exactly 0..n-1, and the only
\* operation that follows is the browser's close.
C4_MarkerEndsLoop ==
    /\ [][pc = "check_marker" =>
            /\ LastOp = "delay"
            /\ breakerAt'[pos] =>
                 /\ pc' = "shutdown"
                 /\ written' = written
                 /\ written = Upto(n)]_vars
    /\ [](exitReason = "marker" =>
            /\ written = Upto(n)
            /\ OutputPath(n) \notin disk
            /\ OpsAfter("$(breaker)") \subseteq {"close"})

C4_Witness == Ended /\ exitReason = "marker" /\ n = 2 /\ written = <<0, 1>>

\* C5: when the next control is absent after slide k = n has been captured
\* (the wait after the first capture, the query in the loop), the run writes
\* nothing more: exactly the k+1 files 0..k exist, k's among them, and the
\* only operation that can follow is the browser's close.
C5_NoNextEndsCapture ==
    /\ [][(pc \in {"first_next", "next"} /\ ~nextAt'[pos]) =>
            /\ pc' \in {"shutdown", "exited"}
            /\ written' = written
            /\ pos' = pos]_vars
    /\ [](exitReason \in {"no_next", "next_timeout"} =>
            /\ written = Upto(n + 1)
            /\ OutputPath(n) \in disk
            /\ OpsAfter("toFile") \cap {"screenshot", "click(nxt)"} = {})

C5_Witness == Ended /\ exitReason = "no_next" /\ n = 2 /\ Len(written) = 3

\* C6: a run that ended because an awaited control was absent, in a phase
\* other than ViewerReady, has closed the browser and exits successfully.
C6_AbsenceFatalOnlyAtViewerReady ==
    (Ended /\ exitReason \notin {"no_url", "goto_failed", "capture_failed",
                                 "viewer_timeout"}) =>
        /\ exitCode = ExitSuccess
        /\ browser = "closed"

\* C7: the step out of ConsentDismissal always enters PresentEntry and the
\* step out of PresentEntry always enters ViewerReady, with the browser open
\* and no exit status set, whether the control was found or not and whether
\* its click succeeded or not; and a run that reaches ConsentDismissal
\* eventually begins the ViewerReady wait.
C7_BestEffortNeverFatal ==
    /\ [][/\ pc = "cookie" => pc' = "present"
          /\ pc = "present" => pc' = "viewer"
          /\ pc \in {"cookie", "present"} =>
               /\ browser' = "open"
               /\ exitCode' = ExitSuccess
               /\ exitReason' = ""]_vars
    /\ (pc = "cookie") ~> (pc = "viewer")

C7_Witness ==
    /\ pc = "viewer"
    /\ env["cookie"] /\ ~env["cookieClick"]
    /\ ~env["present"]

\* C8: in a run without --url the browser is never launched, no browser or
\* page operation is issued and no file is written.
C8_NoUrlNoBrowser ==
    ~env["url"] =>
        /\ pc \in {"args", "exited"}
        /\ browser = "none"
        /\ ops = <<>>
        /\ written = <<>>
        /\ disk = {}

C8_Witness == ~env["url"] /\ Ended /\ exitCode = ExitFailure

\* C9: of two consecutive runs against the same document, one with the
\* consent control absent and one with it present and dismissed, the second
\* ends with the same written indices, the same termination condition and
\* the same exit status as the first.
C9_ConsentIrrelevant ==
    (Ended /\ prev # <<>> /\ {prev[1].consent, Consent} = {"absent", "dismissed"}) =>
        /\ written = prev[1].written
        /\ exitReason = prev[1].exitReason
        /\ exitCode = prev[1].exitCode

C9_Witness ==
    /\ Ended /\ prev # <<>>
    /\ prev[1].consent = "dismissed" /\ Consent = "absent"
    /\ written = <<0, 1>>

\* The document is a deck of N slides: the next control is present on slides
\* 0..N-1 and the end marker shows first after advancing past slide N-1.
Deck(N) ==
    /\ \A i \in 0..(N - 1) : i \in DOMAIN nextAt /\ nextAt[i]
    /\ \A i \in 1..(N - 1) : i \in DOMAIN breakerAt /\ ~breakerAt[i]
    /\ N \in DOMAIN breakerAt /\ breakerAt[N]

\* C10: on a deck of N >= 1 slides (no capture failing) the run writes
\* exactly prezi-0 .. prezi-(N-1) and leaves the loop at the marker check for
\* index N.
C10_DeckOfN ==
    \A N \in 1..MaxN :
        (Deck(N) /\ pc \in {"shutdown", "exited"}) =>
            /\ written = Upto(N)
            /\ disk = {OutputPath(i) : i \in 0..(N - 1)}
            /\ exitReason = "marker"
            /\ n = N

C10_Witness == Ended /\ Deck(2) /\ written = <<0, 1>> /\ exitCode = ExitSuccess

\* The phase a position of the script belongs to: 1 Init (argument check,
\* launch, navigation), 2 ConsentDismissal, 3 PresentEntry, 4 ViewerReady,
\* 5 FullscreenEnter, 6 FirstCapture, 7 AdvanceLoop, 8 Shutdown; 9 is the
\* ended process.
PhaseOf(p) ==
    CASE p \in {"args", "launch", "goto"} -> 1
      [] p = "cookie" -> 2
      [] p = "present" -> 3
      [] p = "viewer" -> 4
      [] p = "fullscreen" -> 5
      [] p \in {"first_capture", "first_move", "first_next"} -> 6
      [] p \in {"loop_top", "check_marker", "capture", "move", "next"} -> 7
      [] p = "shutdown" -> 8
      [] p = "exited" -> 9

\* What the phases before the current one have left behind.
PhaseEffectsDone ==
    LET k == PhaseOf(pc) IN
    k \in 2..8 =>
        /\ SubSeq(ops, 1, 5) = <<"launch", "newPage", "setViewport",
                                 "setUserAgent", "goto">>
        /\ k >= 3 => "wait(cookieAcceptBtn)" \in Range(ops)
        /\ k >= 4 => "wait(presentDiv)" \in Range(ops)
        /\ k >= 5 => "wait(fullscr)" \in Range(ops) /\ env["fullscr"]
        /\ k >= 6 => "click(fullscr)" \in Range(ops)
        /\ k >= 7 => written # <<>> /\ "click(nxt)" \in Range(ops)
        /\ k >= 8 => exitReason \in {"marker", "no_next"}

\* C11: a step of a run stays in its phase, enters the next phase of the
\* order Init, ConsentDismissal, PresentEntry, ViewerReady, FullscreenEnter,
\* FirstCapture, AdvanceLoop, Shutdown, or ends the process: no step goes
\* back or skips ahead, so no phase is entered twice; and whenever a phase
\* has begun, the effects of all phases before it are there.
C11_PhaseOrder ==
    /\ [][\/ PhaseOf(pc') = PhaseOf(pc)
          \/ PhaseOf(pc') = PhaseOf(pc) + 1
          \/ pc' = "exited"]_vars
    /\ []PhaseEffectsDone

C11_Witness == pc = "shutdown" /\ exitReason = "marker" /\ n = 3

\* C12: a run that has ended has a non-zero exit status when the URL was
\* missing, when navigation failed and when ViewerReady timed out, and its
\* status is 0 exactly when the loop ended on the end marker or on the
\* absent next control and Shutdown closed the browser.
C12_ExitStatus ==
    Ended =>
        /\ exitReason \in {"no_url", "goto_failed", "viewer_timeout"} =>
             exitCode # ExitSuccess
        /\ exitCode = ExitSuccess <=>
             (exitReason \in {"marker", "no_next"} /\ LastOp = "close")

C12_Witness == Ended /\ exitReason = "goto_failed" /\ exitCode = ExitFailure

\* The positions of op in the operations issued so far.
At(op) == {i \in DOMAIN ops : ops[i] = op}

\* Number of next activations of this run.
Clicks == Cardinality(At("click(nxt)"))

\* C15: in the operations of a run, a capture that is not the run's last
\* operation is followed at once by its write, the write by the pointer
\* move, and the pointer move by the check of the next control; a next
\* click directly follows such a check; and between two successive captures
\* there is exactly one next click.
C15_CaptureAdvanceAlternate ==
    /\ \A i \in DOMAIN ops : i < Len(ops) =>
         /\ ops[i] = "screenshot" => ops[i + 1] = "toFile"
         /\ ops[i] = "toFile" => ops[i + 1] = "mouse.move"
         /\ ops[i] = "mouse.move" => ops[i + 1] \in {"wait(nxt)", "$(nxt)"}
         /\ ops[i + 1] = "click(nxt)" => ops[i] \in {"wait(nxt)", "$(nxt)"}
    /\ \A i, j \in At("screenshot") :
         (i < j /\ At("screenshot") \cap ((i + 1)..(j - 1)) = {}) =>
             Cardinality(At("click(nxt)") \cap (i..j)) = 1

C15_Witness == Cardinality(At("screenshot")) = 3 /\ LastOp = "click(nxt)"

\* C16: a capture of index k that fails ends the run in that step, with
\* nothing written by it; the run then stays ended with the failed capture
\* as its last operation (no retry, no later capture, no next click) and
\* with the files 0..k-1 as they were.
C16_CaptureFailureEndsRun ==
    /\ [][(pc \in {"first_capture", "capture"} /\ ~shotOk'[n']) =>
            /\ pc' = "exited"
            /\ exitCode' = ExitFailure
            /\ written' = written
            /\ \A i \in 0..(n' - 1) :
                 OutputPath(i) \in disk /\ OutputPath(i) \in disk']_vars
    /\ [](exitReason = "capture_failed" =>
            /\ Ended
            /\ LastOp = "screenshot"
            /\ written = Upto(n)
            /\ \A i \in 0..(n - 1) : OutputPath(i) \in disk
            /\ Cardinality(At("screenshot")) = n + 1
            /\ Clicks = n)

C16_Witness ==
    /\ Ended /\ exitReason = "capture_failed"
    /\ n = 2 /\ written = <<0, 1>>

\* C18: when the loop has ended at the marker check with index n, n files
\* are written and n next clicks were made; when it has ended at the next
\* check with index n, n+1 files and n next clicks; and a step that writes a
\* file writes the one of index n after exactly n next clicks.
C18_CountersAtExit ==
    /\ [](/\ exitReason = "marker" => Len(written) = n /\ Clicks = n
          /\ exitReason = "no_next" => Len(written) = n + 1 /\ Clicks = n
          /\ Clicks = pos)
    /\ [][written' # written =>
            /\ written' = Append(written, n')
            /\ Clicks = n']_vars

C18_Witness == pc = "shutdown" /\ exitReason = "marker" /\ Clicks = 2

\* C19: browser.close() is the last operation of a run: a run whose browser
\* is closed has ended, has closed it once, and issues nothing more.
C19_NothingAfterClose ==
    /\ [](/\ \A i \in At("close") : i = Len(ops)
          /\ browser = "closed" => Ended /\ closes = 1)
    /\ [][browser = "closed" => ops' = ops]_vars

C19_Witness ==
    /\ Ended /\ browser = "closed" /\ LastOp = "close"
    /\ exitReason = "no_next" /\ Len(ops) > 12

InLoop == PhaseOf(pc) = 7

\* One of the loop's two termination signals has been observed: the end
\* marker at a marker check, or the next control absent at the loop's check.
Signal ==
    \/ \E i \in DOMAIN breakerAt : breakerAt[i]
    \/ \E i \in DOMAIN nextAt : i >= 1 /\ ~nextAt[i]

NoCaptureFailed == \A i \in DOMAIN shotOk : shotOk[i]

C13_NamingIdempotent ==
    (Ended /\ prev # <<>>) =>
        /\ written = prev[1].written
        /\ \A i \in Range(written) : OutputPath(i) \in disk
        /\ disk = prev[1].disk

C13_Witness ==
    /\ Ended /\ prev # <<>>
    /\ written = <<0, 1, 2>>
    /\ Cardinality(disk) = 3

Abs(x) == IF x < 0 THEN 0 - x ELSE x

\* C14: every file in the output directory holds an image of exactly
\* 1280 x 720, whatever the viewport the capture was taken with; the capture
\* is scaled by one factor on both axes (up to rounding to whole pixels) to a
\* size that covers the target on both axes and meets it on one, and only
\* the overflow is cropped.
C14_OutputSize ==
    /\ DOMAIN sizes = disk
    /\ \A p \in DOMAIN sizes : sizes[p] = <<TargetWidth, TargetHeight>>
    /\ disk # {} =>
         LET w == Screenshot[1]
             h == Screenshot[2]
             s == CoverScaled(w, h)
         IN /\ s[1] >= TargetWidth /\ s[2] >= TargetHeight
            /\ s[1] = TargetWidth \/ s[2] = TargetHeight
            /\ 2 * Abs(s[1] * h - s[2] * w) <= (IF w >= h THEN w ELSE h)

C14_Witness ==
    /\ viewport = <<DefaultWidth, DefaultHeight>>
    /\ Cardinality(DOMAIN sizes) = 2
    /\ pc = "move"

====
